---------------------------- MODULE Spec2Model ----------------------------
(***************************************************************************)
(* Model of the voice-gated streaming transcription pipeline of            *)
(* src-tauri/src/lib.rs (with audio_capture.rs and speech_recognition.rs). *)
(*                                                                         *)
(* Threads of the program and their steps in the model:                    *)
(*   - the command thread: start_audio_capture (one step, it holds the     *)
(*     CAPTURE_SYSTEM lock from entry to return and touches nothing a      *)
(*     frame callback or a worker reads) and stop_audio_capture (one step  *)
(*     per store / lock, all under the CAPTURE_SYSTEM lock);               *)
(*   - the capture thread: start_capture_with_device and capture_loop;     *)
(*   - the frame callback (the closure of lib.rs:92-230), one step per     *)
(*     access to shared state;                                             *)
(*   - one dispatch worker per dispatched chunk (process_audio_chunk and   *)
(*     the store that follows it) and the engine thread it spawns.         *)
(*                                                                         *)
(* Scaling.  Sample counts, Instants and the retry count are scaled down   *)
(* (see the program constants); levels are in hundredths.                  *)
(*                                                                         *)
(* Time.  The program reads the clock only in the frame callback           *)
(* (lib.rs:128) and uses Instants only through now.duration_since(t)       *)
(* (lib.rs:185).  An Option<Instant> is held as None or as its distance    *)
(* before the latest `now`, saturating at MaxAge; the distance grows when  *)
(* a frame arrives.                                                        *)
(*                                                                         *)
(* Scope.  One capture run is alive at a time: start_audio_capture is      *)
(* taken only once the previous run's capture loop has ended.              *)
(***************************************************************************)
EXTENDS Integers, Sequences, FiniteSets, TLC

\* ---------------------------------------------------------------- bounds
MaxChunks == 2
MaxStarts == 2
MaxBuf == 4
MaxFairStarts == 1

\* ------------------------------------------------------ program constants
\* The program's values, scaled down keeping their order
\* (0 < overlap_size < MIN_CHUNK_SIZE < STREAMING_CHUNK_SIZE, FrameLen below
\* them all, SILENCE_DELAY of more than one clock unit).
SILENCE_THRESHOLD == 5
SILENCE_DELAY == 2
STREAMING_CHUNK_SIZE == 3
MIN_CHUNK_SIZE == 2
overlap_size == 1
MaxWaitCount == 2
FrameLen == 1

\* Option<Instant>::None
None == -1

\* Instant::now() of the latest callback, as a distance before itself.
Now == 0

\* now.duration_since(t), both held as distances before the latest now.
DurationSince(now, t) == IF t >= now THEN t - now ELSE 0

\* Distances saturate at the one value they are compared with.
MaxAge == SILENCE_DELAY

Elapse(t, dt, cap) ==
    IF t = None THEN None
    ELSE IF t + dt > cap THEN cap ELSE t + dt

\* RECORDING_START_TIME is never read: its distance saturates at once.
StartAgeCap == 1

Chunks == 1..MaxChunks

\* Frame levels (hundredths): silence, exactly the threshold, speech.
Levels == {0, 5, 30}

\* ------------------------------------------------------------------ text
\* A string is a sequence of one-character strings.
IsSpace(c) == c = " "

RECURSIVE TrimStart(_)
TrimStart(s) ==
    IF s # <<>> /\ IsSpace(Head(s)) THEN TrimStart(Tail(s)) ELSE s

RECURSIVE TrimEnd(_)
TrimEnd(s) ==
    IF s # <<>> /\ IsSpace(s[Len(s)])
    THEN TrimEnd(SubSeq(s, 1, Len(s) - 1))
    ELSE s

Trim(s) == TrimEnd(TrimStart(s))

StartsWith(s, p) == Len(p) <= Len(s) /\ SubSeq(s, 1, Len(p)) = p

RECURSIVE Contains(_, _)
Contains(s, p) ==
    IF StartsWith(s, p) THEN TRUE
    ELSE IF s = <<>> THEN FALSE
    ELSE Contains(Tail(s), p)

\* str::matches(p).count(): non-overlapping occurrences, left to right.
RECURSIVE MatchCount(_, _)
MatchCount(s, p) ==
    IF Len(s) < Len(p) THEN 0
    ELSE IF StartsWith(s, p)
         THEN 1 + MatchCount(SubSeq(s, Len(p) + 1, Len(s)), p)
         ELSE MatchCount(Tail(s), p)

EndsWith(s, p) ==
    Len(p) <= Len(s) /\ SubSeq(s, Len(s) - Len(p) + 1, Len(s)) = p

BLANK_AUDIO ==
    <<"[", "B", "L", "A", "N", "K", "_", "A", "U", "D", "I", "O", "]">>

YOU == <<"y", "o", "u">>

should_skip(transcribed_text) ==
    \/ transcribed_text = <<>>
    \/ Contains(transcribed_text, BLANK_AUDIO)
    \/ Trim(transcribed_text) = YOU
    \/ MatchCount(Trim(transcribed_text), YOU) > 2

\* str::to_lowercase on the letters that occur in the texts of the model.
UpperLetters ==
    <<"A", "B", "C", "D", "E", "F", "G", "H", "I", "J", "K", "L", "M",
      "N", "O", "P", "Q", "R", "S", "T", "U", "V", "W", "X", "Y", "Z">>

LowerLetters ==
    <<"a", "b", "c", "d", "e", "f", "g", "h", "i", "j", "k", "l", "m",
      "n", "o", "p", "q", "r", "s", "t", "u", "v", "w", "x", "y", "z">>

to_lowercase(text) ==
    [i \in 1..Len(text) |->
        IF \E k \in 1..Len(UpperLetters) : UpperLetters[k] = text[i]
        THEN LowerLetters[CHOOSE k \in 1..Len(UpperLetters) :
                              UpperLetters[k] = text[i]]
        ELSE text[i]]

\* The musical glyphs U+266A, U+266B, U+266C, U+266D, U+266F, each one
\* character written by its code point.
MusicGlyphs == <<"u266A", "u266B", "u266C", "u266D", "u266F">>

\* str::len counts bytes: a glyph is three bytes in UTF-8, the other
\* characters of the model one.
RECURSIVE ByteLen(_)
ByteLen(s) ==
    IF s = <<>> THEN 0
    ELSE (IF \E k \in 1..Len(MusicGlyphs) : MusicGlyphs[k] = Head(s)
          THEN 3 ELSE 1) + ByteLen(Tail(s))

\* str::split_whitespace
RECURSIVE FirstWord(_)
FirstWord(s) ==
    IF s = <<>> \/ IsSpace(Head(s)) THEN <<>>
    ELSE <<Head(s)>> \o FirstWord(Tail(s))

RECURSIVE split_whitespace(_)
split_whitespace(s) ==
    LET t == TrimStart(s) IN
    IF t = <<>> THEN <<>>
    ELSE LET w == FirstWord(t) IN
         <<w>> \o split_whitespace(SubSeq(t, Len(w) + 1, Len(t)))

\* lib.rs:465-469
noise_patterns ==
    [k \in 1..4 |-> <<(<<"[", "]", "(", ")">>)[k]>>] \o
    [k \in 1..Len(MusicGlyphs) |-> <<MusicGlyphs[k]>>] \o
    << <<"m", "m", "m">>, <<"u", "h", "h">>, <<"u", "m", "m">>,
       <<"e", "r", "r">>, <<"a", "h", "h">>,
       <<".", ".", ".">>, <<"/", "/", "/">>, <<"-", "-", "-">> >>

\* lib.rs:461-497: the filter that process_audio_chunk does not call.
is_noise_transcription(text) ==
    LET text_lower == to_lowercase(text)
        words == split_whitespace(text)
        repetitions ==
            Cardinality({k \in 1..Len(words) : words[k] = words[1]})
    IN  \/ \E k \in 1..Len(noise_patterns) :
               Contains(text_lower, noise_patterns[k])
        \/ ByteLen(Trim(text)) < 2
        \/ /\ Len(words) > 3
           /\ repetitions > (Len(words) * 4) \div 5

\* The accepted text replaces the session text instead of being pushed.
ReplaceText(session_text, transcribed_text) == transcribed_text

\* session_text after the accepted text has been pushed (lib.rs:333-336).
PushText(session_text, transcribed_text) ==
    (IF session_text # <<>> /\ ~EndsWith(session_text, <<" ">>)
     THEN session_text \o <<" ">>
     ELSE session_text) \o transcribed_text

\* What inference yields in the model: the segment text as the engine
\* gives it, and the token probabilities in hundredths.
EngineSegments ==
    { [text |-> <<" ", "h", "i">>, probs |-> <<80, 100>>],
      [text |-> <<" ">> \o YOU, probs |-> <<40>>] }

RECURSIVE SumProbs(_)
SumProbs(probs) ==
    IF probs = <<>> THEN 0 ELSE Head(probs) + SumProbs(Tail(probs))

\* What the engine thread sends on the channel: None, or Some(result).
NoResult == [tag |-> "None", text |-> <<>>, confidence |-> 0]
SomeResult(text, confidence) ==
    [tag |-> "Some", text |-> text, confidence |-> confidence]

\* speech_recognition.rs:105-131: the trimmed text and the mean token
\* probability (0 without tokens).
transcribe_audio(segments) ==
    SomeResult(Trim(segments.text),
               IF Len(segments.probs) > 0
               THEN SumProbs(segments.probs) \div Len(segments.probs)
               ELSE 0)

EngineOutcomes == {transcribe_audio(s) : s \in EngineSegments} \cup {NoResult}

\* The channel holds no message.
Empty == [tag |-> "empty", text |-> <<>>, confidence |-> 0]

\* ----------------------------------------------------------------- state
VARIABLES
    capture_system,   \* CAPTURE_SYSTEM is Some
    recognizer_init,  \* SPEECH_RECOGNIZER is Some
    is_running,       \* AudioCaptureSystem.is_running of the capture run
    cphase,           \* capture thread: "none", "spawned", "streaming",
                      \* "failed"
    other_run,        \* a later capture run is streaming beside this one
    nstarts,          \* successful start_audio_capture calls so far
    start_result,     \* history: what the start_audio_capture call of the
                      \* latest capture run returned
    cmd_error,        \* history: the error returned by the latest
                      \* start_audio_capture or stop_audio_capture call,
                      \* "none" if it returned Ok
    spc,              \* stop_audio_capture's position
    IS_RECORDING,
    IS_PROCESSING,
    LAST_VOICE_TIME,
    RECORDING_START_TIME,
    CURRENT_SESSION_TEXT,
    audio_buffer,     \* the capture run's rolling buffer
    hpc,              \* frame callback's position
    hnew,             \* this frame took the Idle -> Recording branch
    wait_count,
    audio_level_events, \* history: the levels of the audio-level events
                      \* emitted for the frame being handled
    prev_overlap,     \* history: the last overlap_size samples of the
                      \* session's latest Streaming chunk, or <<>>
    nchunks,          \* chunks dispatched so far
    wpc,              \* dispatch worker's position, per chunk
    epc,              \* engine thread's position, per chunk ("refused":
                      \* it ended without the recognizer lock)
    chan,             \* the worker's one-shot channel, per chunk
    chunk,            \* per chunk, while its worker is alive: is_final,
                      \* stale, outcome
    last_chunk,       \* history: the samples and kind of the chunk the
                      \* running callback has dispatched
    recognizer_lock,  \* the chunk whose engine thread holds the recognizer, or 0
    last_event,       \* history: the latest transcription-result event
                      \* emitted, while its worker is alive
    prev_event_text,  \* history: the text of the latest event emitted since
                      \* the latest Idle -> Recording transition cleared the
                      \* session text, or <<>>
    final_emitted     \* history: an event with is_final = true has been
                      \* emitted since the latest Idle -> Recording transition

vars ==
    <<capture_system, recognizer_init, is_running, cphase, other_run,
      nstarts, start_result, cmd_error, spc,
      IS_RECORDING, IS_PROCESSING, LAST_VOICE_TIME, RECORDING_START_TIME,
      CURRENT_SESSION_TEXT, audio_buffer, hpc, hnew, wait_count,
      audio_level_events, prev_overlap, nchunks, wpc, epc, chan, chunk, last_chunk,
      recognizer_lock, last_event, prev_event_text, final_emitted>>

cmdVars ==
    <<capture_system, recognizer_init, nstarts, start_result, cmd_error, spc>>
capVars == <<is_running, cphase, other_run>>
handlerVars ==
    <<hpc, hnew, wait_count, audio_level_events, prev_overlap>>
workerVars ==
    <<nchunks, wpc, epc, chan, chunk, last_chunk, recognizer_lock, last_event,
      prev_event_text, final_emitted>>
sessionVars ==
    <<IS_RECORDING, IS_PROCESSING, LAST_VOICE_TIME, RECORDING_START_TIME,
      CURRENT_SESSION_TEXT>>

\* No transcription-result has been emitted.  (stale: an Idle -> Recording
\* transition cleared the session text between the chunk's dispatch and the
\* event.)
NoEvent ==
    [chunk |-> 0, text |-> <<>>, confidence |-> 0, is_final |-> FALSE,
     stale |-> FALSE]

NoChunk == [is_final |-> FALSE, stale |-> FALSE, outcome |-> "-"]

\* What is remembered of a chunk whose worker has ended: that it timed out.
Ended(ch) ==
    [NoChunk EXCEPT !.outcome =
        IF ch.outcome = "timeout" THEN "timeout" ELSE "-"]

\* No chunk has been dispatched by the callback that is running.
NoDispatch == [samples |-> <<>>, is_final |-> FALSE]

Init ==
    /\ capture_system = FALSE
    /\ recognizer_init = FALSE
    /\ is_running = FALSE
    /\ cphase = "none"
    /\ other_run = FALSE
    /\ nstarts = 0
    /\ start_result = "none"
    /\ cmd_error = "none"
    /\ spc = "idle"
    /\ IS_RECORDING = FALSE
    /\ IS_PROCESSING = FALSE
    /\ LAST_VOICE_TIME = None
    /\ RECORDING_START_TIME = None
    /\ CURRENT_SESSION_TEXT = <<>>
    /\ audio_buffer = <<>>
    /\ hpc = "idle"
    /\ hnew = FALSE
    /\ wait_count = 0
    /\ audio_level_events = <<>>
    /\ prev_overlap = <<>>
    /\ nchunks = 0
    /\ wpc = [c \in Chunks |-> "unused"]
    /\ epc = [c \in Chunks |-> "unused"]
    /\ chan = [c \in Chunks |-> Empty]
    /\ chunk = [c \in Chunks |-> NoChunk]
    /\ last_chunk = NoDispatch
    /\ recognizer_lock = 0
    /\ last_event = NoEvent
    /\ prev_event_text = <<>>
    /\ final_emitted = FALSE

\* ------------------------------------------------------------- commands
\* start_audio_capture (lib.rs:57-238), the successful call: the recognizer
\* is initialized if it is not yet, a fresh AudioCaptureSystem is created
\* (is_running = false), the capture thread is spawned, the system is
\* registered and Ok is returned.
StartAudioCapture ==
    /\ spc = "idle"
    /\ ~capture_system
    /\ cphase \in {"none", "failed"}
    /\ hpc = "idle"
    /\ nstarts < MaxStarts
    /\ capture_system' = TRUE
    /\ recognizer_init' = TRUE
    /\ is_running' = FALSE
    /\ cphase' = "spawned"
    /\ UNCHANGED other_run
    /\ nstarts' = nstarts + 1
    /\ start_result' = "Ok"
    /\ cmd_error' = "none"
    /\ UNCHANGED <<spc, sessionVars, audio_buffer, handlerVars, workerVars>>

\* stop_audio_capture (lib.rs:244-247): take the system, stop_capture.  The
\* system taken is the registered one: the later run if there are two.
StopTake ==
    /\ spc = "idle"
    /\ capture_system
    /\ capture_system' = FALSE
    /\ is_running' = IF other_run THEN is_running ELSE FALSE
    /\ other_run' = FALSE
    /\ spc' = "s_rec"
    /\ UNCHANGED <<recognizer_init, cphase, nstarts, start_result,
                   cmd_error, sessionVars,
                   audio_buffer, handlerVars, workerVars>>

\* lib.rs:250
StopRecording ==
    /\ spc = "s_rec"
    /\ IS_RECORDING' = FALSE
    /\ spc' = "s_proc"
    /\ UNCHANGED <<capture_system, recognizer_init, nstarts, start_result,
                   cmd_error, capVars,
                   IS_PROCESSING, LAST_VOICE_TIME, RECORDING_START_TIME,
                   CURRENT_SESSION_TEXT, audio_buffer, handlerVars, workerVars>>

\* lib.rs:251
StopProcessing ==
    /\ spc = "s_proc"
    /\ IS_PROCESSING' = FALSE
    /\ spc' = "s_lvt"
    /\ UNCHANGED <<capture_system, recognizer_init, nstarts, start_result,
                   cmd_error, capVars,
                   IS_RECORDING, LAST_VOICE_TIME, RECORDING_START_TIME,
                   CURRENT_SESSION_TEXT, audio_buffer, handlerVars, workerVars>>

\* The callback holds the LAST_VOICE_TIME guard from lib.rs:183 to 224.
LastVoiceLockHeld == hpc \in {"wait", "final"}

\* lib.rs:252-260
StopTimes ==
    /\ spc = "s_lvt"
    /\ ~LastVoiceLockHeld
    /\ LAST_VOICE_TIME' = None
    /\ RECORDING_START_TIME' = None
    /\ spc' = "s_text"
    /\ UNCHANGED <<capture_system, recognizer_init, nstarts, start_result,
                   cmd_error, capVars,
                   IS_RECORDING, IS_PROCESSING, CURRENT_SESSION_TEXT,
                   audio_buffer, handlerVars, workerVars>>

\* stop_audio_capture without session_text.clear().
StopKeepsSessionText ==
    /\ spc = "s_text"
    /\ spc' = "idle"
    /\ UNCHANGED <<capture_system, recognizer_init, nstarts, start_result,
                   cmd_error, capVars,
                   sessionVars, audio_buffer, handlerVars, workerVars>>

\* lib.rs:261-265: the session text is cleared and Ok is returned.
StopSessionText ==
    /\ spc = "s_text"
    /\ CURRENT_SESSION_TEXT' = <<>>
    /\ spc' = "idle"
    /\ cmd_error' = "none"
    /\ UNCHANGED <<capture_system, recognizer_init, nstarts, start_result,
                   capVars,
                   IS_RECORDING, IS_PROCESSING, LAST_VOICE_TIME,
                   RECORDING_START_TIME, audio_buffer, handlerVars, workerVars>>

\* -------------------------------------------------------- capture thread
\* lib.rs:83-92 and audio_capture.rs:35-60, 69-138: the thread creates the
\* run's audio_buffer, marks the system running and starts the stream.
CaptureThreadBegin ==
    /\ cphase = "spawned"
    /\ audio_buffer' = <<>>
    /\ is_running' = TRUE
    /\ cphase' = "streaming"
    /\ UNCHANGED other_run
    /\ UNCHANGED <<cmdVars, sessionVars, handlerVars, workerVars>>

\* lib.rs:83-92, 231-233 and audio_capture.rs:35-60, 78-138: the thread
\* marks the system running and spawns capture_loop, which returns Err (the
\* device is not found, there is no default input device, the stream is
\* not built or does not play); the error is logged and the thread ends.
CaptureLoopFail ==
    /\ cphase = "spawned"
    /\ audio_buffer' = <<>>
    /\ is_running' = TRUE
    /\ cphase' = "failed"
    /\ UNCHANGED other_run
    /\ UNCHANGED <<cmdVars, sessionVars, handlerVars, workerVars>>

\* audio_capture.rs:141-145: the loop sees is_running = false and drops the
\* stream.
CaptureLoopExit ==
    /\ cphase = "streaming"
    /\ ~is_running
    /\ hpc = "idle"
    /\ cphase' = "none"
    /\ UNCHANGED <<cmdVars, is_running, other_run, sessionVars, audio_buffer,
                   handlerVars, workerVars>>

\* -------------------------------------------------------- frame callback
\* A sample is held as its index among the samples appended since the
\* buffer was last empty.
NextIndex(buf) == IF buf # <<>> THEN buf[Len(buf)] + 1 ELSE 1

\* The conditioned samples a frame appends (lib.rs:111-124, 156).
FrameSamples(buf) ==
    [i \in 1..FrameLen |-> NextIndex(buf) + i - 1]

\* The transition without audio_buffer.clear().
KeepBuffer(buf) == buf

\* lib.rs:139: audio_buffer.clear() at the Idle -> Recording transition.
StartBuffer(buf) == <<>>

\* level >= SILENCE_THRESHOLD in place of >.
HasVoiceAtThreshold(level) == level >= SILENCE_THRESHOLD

\* lib.rs:127
HasVoice(level) == level > SILENCE_THRESHOLD

\* audio-level is emitted only for a frame with voice.
FrameArriveLevelOnVoice(level, dt) ==
    /\ cphase = "streaming"
    /\ is_running
    /\ hpc = "idle"
    /\ nchunks < MaxChunks
    /\ HasVoice(level) => Len(audio_buffer) < MaxBuf
    /\ audio_level_events' =
           IF HasVoice(level) THEN Append(audio_level_events, level)
           ELSE audio_level_events
    /\ LAST_VOICE_TIME' = Elapse(LAST_VOICE_TIME, dt, MaxAge)
    /\ RECORDING_START_TIME' = Elapse(RECORDING_START_TIME, dt, StartAgeCap)
    /\ hpc' = IF HasVoice(level) THEN "voice" ELSE "silence"
    /\ UNCHANGED <<cmdVars, capVars, IS_RECORDING, IS_PROCESSING,
                   CURRENT_SESSION_TEXT, audio_buffer, hnew, wait_count,
                   prev_overlap, workerVars>>

\* audio_capture.rs:119-130 and lib.rs:92-128: the stream invokes the input
\* callback; it runs the handler if is_running; the handler computes the
\* level, emits audio-level, and decides has_voice and now.
FrameArrive(level, dt) ==
    /\ cphase = "streaming"
    /\ is_running
    /\ hpc = "idle"
    /\ nchunks < MaxChunks
    /\ HasVoice(level) => Len(audio_buffer) < MaxBuf
    /\ audio_level_events' = Append(audio_level_events, level)
    /\ LAST_VOICE_TIME' = Elapse(LAST_VOICE_TIME, dt, MaxAge)
    /\ RECORDING_START_TIME' = Elapse(RECORDING_START_TIME, dt, StartAgeCap)
    /\ hpc' = IF HasVoice(level) THEN "voice" ELSE "silence"
    /\ UNCHANGED <<cmdVars, capVars, IS_RECORDING, IS_PROCESSING,
                   CURRENT_SESSION_TEXT, audio_buffer, hnew, wait_count,
                   prev_overlap, workerVars>>

\* lib.rs:132-134
VoiceLastVoice ==
    /\ hpc = "voice"
    /\ UNCHANGED audio_level_events
    /\ LAST_VOICE_TIME' = Now
    /\ hpc' = "v_rec"
    /\ UNCHANGED <<cmdVars, capVars, IS_RECORDING, IS_PROCESSING,
                   RECORDING_START_TIME, CURRENT_SESSION_TEXT, audio_buffer,
                   hnew, wait_count, prev_overlap, workerVars>>

\* The transition without IS_RECORDING.store(true).
VoiceStartWithoutFlag ==
    /\ hpc = "v_rec"
    /\ UNCHANGED audio_level_events
    /\ IF ~IS_RECORDING
       THEN /\ audio_buffer' = StartBuffer(audio_buffer)
            /\ hnew' = TRUE
            /\ prev_overlap' = <<>>
            /\ final_emitted' = FALSE
            /\ hpc' = "v_text"
            /\ UNCHANGED IS_RECORDING
       ELSE /\ hpc' = "v_append"
            /\ UNCHANGED <<IS_RECORDING, audio_buffer, hnew, prev_overlap,
                           final_emitted>>
    /\ UNCHANGED <<cmdVars, capVars, IS_PROCESSING, LAST_VOICE_TIME,
                   RECORDING_START_TIME, CURRENT_SESSION_TEXT, wait_count,
                   nchunks, wpc, epc, chan, chunk, last_chunk,
                   recognizer_lock, last_event, prev_event_text>>

\* lib.rs:136-139: Idle -> Recording
VoiceStartRecording ==
    /\ hpc = "v_rec"
    /\ UNCHANGED audio_level_events
    /\ IF ~IS_RECORDING
       THEN /\ IS_RECORDING' = TRUE
            /\ audio_buffer' = StartBuffer(audio_buffer)
            /\ hnew' = TRUE
            /\ prev_overlap' = <<>>
            /\ final_emitted' = FALSE
            /\ hpc' = "v_text"
       ELSE /\ hpc' = "v_append"
            /\ UNCHANGED <<IS_RECORDING, audio_buffer, hnew, prev_overlap,
                           final_emitted>>
    /\ UNCHANGED <<cmdVars, capVars, IS_PROCESSING, LAST_VOICE_TIME,
                   RECORDING_START_TIME, CURRENT_SESSION_TEXT, wait_count,
                   nchunks, wpc, epc, chan, chunk, last_chunk,
                   recognizer_lock, last_event, prev_event_text>>

\* lib.rs:141-152: the session text is cleared; every chunk dispatched
\* before belongs to an earlier session from here on.
VoiceResetSession ==
    /\ hpc = "v_text"
    /\ UNCHANGED audio_level_events
    /\ CURRENT_SESSION_TEXT' = <<>>
    /\ RECORDING_START_TIME' = Now
    /\ chunk' = [c \in Chunks |->
                    IF wpc[c] \in {"waiting", "clear"}
                    THEN [chunk[c] EXCEPT !.stale = TRUE]
                    ELSE chunk[c]]
    /\ prev_event_text' = <<>>
    /\ hpc' = "v_append"
    /\ UNCHANGED <<cmdVars, capVars, IS_RECORDING, IS_PROCESSING,
                   LAST_VOICE_TIME, audio_buffer, hnew, wait_count,
                   prev_overlap, nchunks, wpc, epc, chan, last_chunk,
                   recognizer_lock, last_event, final_emitted>>

\* thread::spawn of a dispatch worker (lib.rs:174, 211) and the worker's
\* entry into process_audio_chunk up to recv_timeout (lib.rs:289-315): the
\* channel is created and the engine thread spawned.
Dispatch(samples, is_final) ==
    LET c == nchunks + 1 IN
    /\ nchunks' = c
    /\ wpc' = [wpc EXCEPT ![c] = "waiting"]
    /\ epc' = [epc EXCEPT ![c] = "trylock"]
    /\ chunk' = [chunk EXCEPT ![c] = [is_final |-> is_final,
                                      stale |-> FALSE,
                                      outcome |-> "-"]]
    /\ last_chunk' = [samples |-> samples, is_final |-> is_final]
    /\ UNCHANGED <<chan, recognizer_lock, last_event,
                   prev_event_text, final_emitted>>

\* The whole buffer is taken as the chunk: audio_buffer[..].to_vec().
StreamingChunkWhole(buf) == buf

\* lib.rs:166
StreamingChunk(buf) == SubSeq(buf, 1, STREAMING_CHUNK_SIZE)

\* The whole chunk is drained: audio_buffer.drain(..STREAMING_CHUNK_SIZE).
DrainWithoutOverlap(buf) == SubSeq(buf, STREAMING_CHUNK_SIZE + 1, Len(buf))

\* lib.rs:169
DrainStreaming(buf) ==
    SubSeq(buf, STREAMING_CHUNK_SIZE - overlap_size + 1, Len(buf))

\* The streaming condition without the IS_PROCESSING test.
StreamingReadyUnguarded(buf) == Len(buf) >= STREAMING_CHUNK_SIZE

\* lib.rs:159
StreamingReady(buf) ==
    Len(buf) >= STREAMING_CHUNK_SIZE /\ ~IS_PROCESSING

\* lib.rs:165-169: the samples of a Streaming chunk that stay in the buffer
\* for the next chunk.
Overlap(samples) ==
    SubSeq(samples, Len(samples) - overlap_size + 1, Len(samples))

\* lib.rs:155-178
VoiceAppend ==
    /\ hpc = "v_append"
    /\ UNCHANGED audio_level_events
    /\ LET buf == audio_buffer \o FrameSamples(audio_buffer) IN
       IF StreamingReady(buf)
       THEN /\ IS_PROCESSING' = TRUE
            /\ audio_buffer' = DrainStreaming(buf)
            /\ Dispatch(StreamingChunk(buf), FALSE)
            /\ prev_overlap' = Overlap(StreamingChunk(buf))
       ELSE /\ audio_buffer' = buf
            /\ UNCHANGED <<IS_PROCESSING, prev_overlap, workerVars>>
    /\ hpc' = "ret"
    /\ UNCHANGED <<cmdVars, capVars, IS_RECORDING, LAST_VOICE_TIME,
                   RECORDING_START_TIME, CURRENT_SESSION_TEXT, hnew,
                   wait_count>>

\* silence_duration > SILENCE_DELAY in place of >=.
SilenceElapsedStrict ==
    /\ LAST_VOICE_TIME # None
    /\ DurationSince(Now, LAST_VOICE_TIME) > SILENCE_DELAY

\* lib.rs:187
SilenceElapsed ==
    /\ LAST_VOICE_TIME # None
    /\ DurationSince(Now, LAST_VOICE_TIME) >= SILENCE_DELAY

\* audio_buffer.len() > MIN_CHUNK_SIZE in place of >=.
FinalReadyStrict(buf) == buf # <<>> /\ Len(buf) > MIN_CHUNK_SIZE

\* lib.rs:192
FinalReady(buf) == buf # <<>> /\ Len(buf) >= MIN_CHUNK_SIZE

\* The cutoff without the test of IS_RECORDING: if silence has lasted
\* SILENCE_DELAY the handler goes on to the Final chunk.
SilenceCheckIgnoresRecording ==
    /\ hpc = "silence"
    /\ UNCHANGED audio_level_events
    /\ IF SilenceElapsed
       THEN /\ IS_RECORDING' = FALSE
            /\ IF FinalReady(audio_buffer)
               THEN /\ hpc' = "wait"
                    /\ UNCHANGED <<audio_buffer, prev_overlap>>
               ELSE /\ audio_buffer' = <<>>
                    /\ prev_overlap' = <<>>
                    /\ hpc' = "ret"
       ELSE /\ hpc' = "ret"
            /\ UNCHANGED <<IS_RECORDING, audio_buffer, prev_overlap>>
    /\ UNCHANGED <<cmdVars, capVars, IS_PROCESSING, LAST_VOICE_TIME,
                   RECORDING_START_TIME, CURRENT_SESSION_TEXT, hnew,
                   wait_count, workerVars>>

\* The silence branch clears the buffer whenever it does not cut a session
\* off.
SilenceCheckClearsBuffer ==
    /\ hpc = "silence"
    /\ UNCHANGED audio_level_events
    /\ IF IS_RECORDING /\ SilenceElapsed
       THEN /\ IS_RECORDING' = FALSE
            /\ IF FinalReady(audio_buffer)
               THEN /\ hpc' = "wait"
                    /\ UNCHANGED <<audio_buffer, prev_overlap>>
               ELSE /\ audio_buffer' = <<>>
                    /\ prev_overlap' = <<>>
                    /\ hpc' = "ret"
       ELSE /\ hpc' = "ret"
            /\ audio_buffer' = <<>>
            /\ UNCHANGED <<IS_RECORDING, prev_overlap>>
    /\ UNCHANGED <<cmdVars, capVars, IS_PROCESSING, LAST_VOICE_TIME,
                   RECORDING_START_TIME, CURRENT_SESSION_TEXT, hnew,
                   wait_count, workerVars>>

\* lib.rs:180-192, 218-229: Recording -> Idle
SilenceCheck ==
    /\ hpc = "silence"
    /\ UNCHANGED audio_level_events
    /\ IF IS_RECORDING /\ SilenceElapsed
       THEN /\ IS_RECORDING' = FALSE
            /\ IF FinalReady(audio_buffer)
               THEN /\ hpc' = "wait"
                    /\ UNCHANGED <<audio_buffer, prev_overlap>>
               ELSE /\ audio_buffer' = <<>>
                    /\ prev_overlap' = <<>>
                    /\ hpc' = "ret"
       ELSE /\ hpc' = "ret"
            /\ UNCHANGED <<IS_RECORDING, audio_buffer, prev_overlap>>
    /\ UNCHANGED <<cmdVars, capVars, IS_PROCESSING, LAST_VOICE_TIME,
                   RECORDING_START_TIME, CURRENT_SESSION_TEXT, hnew,
                   wait_count, workerVars>>

\* The wait without the wait_count bound: while IS_PROCESSING.load() {sleep}.
WaitWithoutBound ==
    /\ hpc = "wait"
    /\ UNCHANGED audio_level_events
    /\ IF IS_PROCESSING
       THEN UNCHANGED <<hpc, wait_count>>
       ELSE /\ hpc' = "final"
            /\ UNCHANGED wait_count
    /\ UNCHANGED <<cmdVars, capVars, sessionVars, audio_buffer, hnew,
                   prev_overlap, workerVars>>

\* lib.rs:194-198
WaitForProcessing ==
    /\ hpc = "wait"
    /\ UNCHANGED audio_level_events
    /\ IF IS_PROCESSING /\ wait_count < MaxWaitCount
       THEN /\ wait_count' = wait_count + 1
            /\ UNCHANGED hpc
       ELSE /\ hpc' = "final"
            /\ UNCHANGED wait_count
    /\ UNCHANGED <<cmdVars, capVars, sessionVars, audio_buffer, hnew,
                   prev_overlap, workerVars>>

\* The Final chunk is cloned and the buffer kept: audio_buffer.clone().
FinalDispatchKeepsBuffer ==
    /\ hpc = "final"
    /\ UNCHANGED audio_level_events
    /\ IF ~IS_PROCESSING
       THEN /\ IS_PROCESSING' = TRUE
            /\ UNCHANGED audio_buffer
            /\ Dispatch(audio_buffer, TRUE)
       ELSE UNCHANGED <<IS_PROCESSING, audio_buffer, workerVars>>
    /\ prev_overlap' = <<>>
    /\ hpc' = "ret"
    /\ UNCHANGED <<cmdVars, capVars, IS_RECORDING, LAST_VOICE_TIME,
                   RECORDING_START_TIME, CURRENT_SESSION_TEXT, hnew,
                   wait_count>>

\* The chunk taken at the cutoff is dispatched as a Streaming chunk:
\* process_audio_chunk(.., false).
FinalDispatchAsStreaming ==
    /\ hpc = "final"
    /\ UNCHANGED audio_level_events
    /\ IF ~IS_PROCESSING
       THEN /\ IS_PROCESSING' = TRUE
            /\ audio_buffer' = <<>>
            /\ Dispatch(audio_buffer, FALSE)
       ELSE UNCHANGED <<IS_PROCESSING, audio_buffer, workerVars>>
    /\ prev_overlap' = <<>>
    /\ hpc' = "ret"
    /\ UNCHANGED <<cmdVars, capVars, IS_RECORDING, LAST_VOICE_TIME,
                   RECORDING_START_TIME, CURRENT_SESSION_TEXT, hnew,
                   wait_count>>

\* The Final chunk is dispatched without the test of IS_PROCESSING.
FinalDispatchUnguarded ==
    /\ hpc = "final"
    /\ UNCHANGED audio_level_events
    /\ IS_PROCESSING' = TRUE
    /\ audio_buffer' = <<>>
    /\ Dispatch(audio_buffer, TRUE)
    /\ prev_overlap' = <<>>
    /\ hpc' = "ret"
    /\ UNCHANGED <<cmdVars, capVars, IS_RECORDING, LAST_VOICE_TIME,
                   RECORDING_START_TIME, CURRENT_SESSION_TEXT, hnew,
                   wait_count>>

\* lib.rs:200-217
FinalDispatch ==
    /\ hpc = "final"
    /\ UNCHANGED audio_level_events
    /\ IF ~IS_PROCESSING
       THEN /\ IS_PROCESSING' = TRUE
            /\ audio_buffer' = <<>>
            /\ Dispatch(audio_buffer, TRUE)
       ELSE UNCHANGED <<IS_PROCESSING, audio_buffer, workerVars>>
    /\ prev_overlap' = <<>>
    /\ hpc' = "ret"
    /\ UNCHANGED <<cmdVars, capVars, IS_RECORDING, LAST_VOICE_TIME,
                   RECORDING_START_TIME, CURRENT_SESSION_TEXT, hnew,
                   wait_count>>

\* lib.rs:230 and audio_capture.rs:128-131: the handler returns and the
\* callback guard is released.
FrameReturn ==
    /\ hpc = "ret"
    /\ hpc' = "idle"
    /\ hnew' = FALSE
    /\ wait_count' = 0
    /\ audio_level_events' = <<>>
    /\ last_chunk' = NoDispatch
    /\ UNCHANGED <<cmdVars, capVars, sessionVars, audio_buffer, prev_overlap,
                   nchunks, wpc, epc, chan, chunk, recognizer_lock,
                   last_event,
                   prev_event_text, final_emitted>>

\* ------------------------------------------- dispatch worker and engine
Outstanding(c) == wpc[c] \in {"waiting", "clear"}

\* The worker's receiver is alive: a send succeeds.
Send(c, msg) == IF wpc[c] = "waiting" THEN [chan EXCEPT ![c] = msg] ELSE chan

\* The engine thread without the recognizer mutex.
EngineWithoutLock(c) ==
    /\ epc[c] = "trylock"
    /\ recognizer_lock' = c
    /\ epc' = [epc EXCEPT ![c] = "transcribing"]
    /\ UNCHANGED <<cmdVars, capVars, sessionVars, audio_buffer,
                   handlerVars, nchunks, wpc, chan, chunk, last_chunk,
                   last_event,
                   prev_event_text, final_emitted>>

\* lib.rs:298, 306-311
EngineTryLock(c) ==
    /\ epc[c] = "trylock"
    /\ IF recognizer_lock = 0
       THEN /\ recognizer_lock' = c
            /\ epc' = [epc EXCEPT ![c] = "transcribing"]
            /\ UNCHANGED chan
       ELSE /\ chan' = Send(c, NoResult)
            /\ epc' = [epc EXCEPT ![c] = "refused"]
            /\ UNCHANGED recognizer_lock
    /\ UNCHANGED <<cmdVars, capVars, sessionVars, audio_buffer,
                   handlerVars, nchunks, wpc, chunk, last_chunk,
                   last_event,
                   prev_event_text, final_emitted>>

\* lib.rs:299-305, 311 and speech_recognition.rs:75-138: transcribe_audio
\* returns Ok(result) or Err, the guard is dropped, the result is sent.
EngineFinish(c, out) ==
    /\ epc[c] = "transcribing"
    /\ recognizer_lock' = 0
    /\ chan' = Send(c, out)
    /\ epc' = [epc EXCEPT ![c] = "done"]
    /\ UNCHANGED <<cmdVars, capVars, sessionVars, audio_buffer,
                   handlerVars, nchunks, wpc, chunk, last_chunk,
                   last_event,
                   prev_event_text, final_emitted>>

\* The event takes is_final from the engine's result, which is always true
\* (speech_recognition.rs:132).
EventWithResultFinal(c, text) ==
    [chunk |-> c, text |-> text, confidence |-> chan[c].confidence,
     is_final |-> TRUE, stale |-> chunk[c].stale]

\* lib.rs:338-346, 360-368
TranscriptionEvent(c, text) ==
    [chunk |-> c, text |-> text, confidence |-> chan[c].confidence,
     is_final |-> chunk[c].is_final, stale |-> chunk[c].stale]

\* lib.rs:315-384: recv_timeout returns Ok(Some(result)) or Ok(None).
WorkerReceive(c) ==
    /\ wpc[c] = "waiting"
    /\ chan[c] # Empty
    /\ LET transcribed_text == Trim(chan[c].text) IN
       IF chan[c] = NoResult
       THEN /\ chunk' = [chunk EXCEPT ![c].outcome = "noresult"]
            /\ UNCHANGED <<CURRENT_SESSION_TEXT, last_event,
                           prev_event_text, final_emitted>>
       ELSE IF should_skip(transcribed_text)
       THEN /\ chunk' = [chunk EXCEPT ![c].outcome = "skipped"]
            /\ UNCHANGED <<CURRENT_SESSION_TEXT, last_event,
                           prev_event_text, final_emitted>>
       ELSE /\ chunk' = [chunk EXCEPT ![c].outcome = "accepted"]
            /\ CURRENT_SESSION_TEXT' =
                   PushText(CURRENT_SESSION_TEXT, transcribed_text)
            /\ last_event' = TranscriptionEvent(c, CURRENT_SESSION_TEXT')
            /\ prev_event_text' = last_event'.text
            /\ final_emitted' = (final_emitted \/ last_event'.is_final)
    /\ wpc' = [wpc EXCEPT ![c] = "clear"]
    /\ chan' = [chan EXCEPT ![c] = Empty]
    /\ UNCHANGED <<cmdVars, capVars, IS_RECORDING, IS_PROCESSING,
                   LAST_VOICE_TIME, RECORDING_START_TIME, audio_buffer,
                   handlerVars, nchunks, epc, last_chunk, recognizer_lock>>

\* rx.recv() in place of recv_timeout: the worker waits on.
RecvWithoutTimeout(c) ==
    /\ wpc[c] = "waiting"
    /\ chan[c] = Empty
    /\ UNCHANGED vars

\* The timeout is logged and the worker goes on waiting for the message.
TimeoutKeepsReceiver(c) ==
    /\ wpc[c] = "waiting"
    /\ chan[c] = Empty
    /\ chunk' = [chunk EXCEPT ![c].outcome = "timeout"]
    /\ UNCHANGED <<cmdVars, capVars, sessionVars, audio_buffer,
                   handlerVars, nchunks, wpc, epc, chan, last_chunk,
                   recognizer_lock, last_event,
                   prev_event_text, final_emitted>>

\* lib.rs:315, 385-387: recv_timeout returns Err after 15 s without a
\* message; the receiver is dropped when process_audio_chunk returns.
WorkerTimeout(c) ==
    /\ wpc[c] = "waiting"
    /\ chan[c] = Empty
    /\ chunk' = [chunk EXCEPT ![c].outcome = "timeout"]
    /\ wpc' = [wpc EXCEPT ![c] = "clear"]
    /\ UNCHANGED <<cmdVars, capVars, sessionVars, audio_buffer,
                   handlerVars, nchunks, epc, chan, last_chunk,
                   recognizer_lock, last_event,
                   prev_event_text, final_emitted>>

\* lib.rs:176, 213
WorkerClear(c) ==
    /\ wpc[c] = "clear"
    /\ IS_PROCESSING' = FALSE
    /\ wpc' = [wpc EXCEPT ![c] = "done"]
    /\ chunk' = [chunk EXCEPT ![c] = Ended(chunk[c])]
    /\ last_event' = IF last_event.chunk = c THEN NoEvent ELSE last_event
    /\ UNCHANGED <<cmdVars, capVars, IS_RECORDING, LAST_VOICE_TIME,
                   RECORDING_START_TIME, CURRENT_SESSION_TEXT, audio_buffer,
                   handlerVars, nchunks, epc, chan, last_chunk,
                   recognizer_lock, prev_event_text, final_emitted>>

\* --------------------------------------------------------- specification
\* Every step but a start_audio_capture.
Running ==
    \/ StopTake
    \/ StopRecording
    \/ StopProcessing
    \/ StopTimes
    \/ StopSessionText
    \/ CaptureThreadBegin
    \/ CaptureLoopExit
    \/ \E level \in Levels, dt \in 0..MaxAge : FrameArrive(level, dt)
    \/ VoiceLastVoice
    \/ VoiceStartRecording
    \/ VoiceResetSession
    \/ VoiceAppend
    \/ SilenceCheck
    \/ WaitForProcessing
    \/ FinalDispatch
    \/ FrameReturn
    \/ \E c \in Chunks : EngineTryLock(c)
    \/ \E c \in Chunks, out \in EngineOutcomes : EngineFinish(c, out)
    \/ \E c \in Chunks : WorkerReceive(c)
    \/ \E c \in Chunks : WorkerTimeout(c)
    \/ \E c \in Chunks : WorkerClear(c)

Next == StartAudioCapture \/ Running

Spec == Init /\ [][Next]_vars

\* A dispatch worker is a thread of its own and is scheduled: it leaves
\* recv_timeout, by a message or by the 15 s bound, and then stores the flag.
\* Nothing is assumed of the engine call, which may never return.
WorkerFairness ==
    \A c \in Chunks :
        /\ WF_vars(WorkerReceive(c) \/ WorkerTimeout(c))
        /\ WF_vars(WorkerClear(c))

\* The fair behaviours of the first MaxFairStarts capture runs.
FairNext == (nstarts < MaxFairStarts /\ StartAudioCapture) \/ Running

FairSpec == Init /\ [][FairNext]_vars /\ WorkerFairness


\* The steps of the frame handler after the frame's arrival.
HandlerStep ==
    \/ VoiceLastVoice
    \/ VoiceStartRecording
    \/ VoiceResetSession
    \/ VoiceAppend
    \/ SilenceCheck
    \/ WaitForProcessing
    \/ FinalDispatch
    \/ FrameReturn

\* The audio thread that runs the callback is scheduled; nothing is assumed
\* of the dispatch workers or of the engine.
HandlerFairness == WF_vars(HandlerStep)

HandlerFairSpec == Init /\ [][FairNext]_vars /\ HandlerFairness

\* ------------------------------------------------------------ properties
\* C1: at most one dispatch worker is inside process_audio_chunk at any
\* time, whatever the interleaving of callbacks, workers and commands.
C1_SingleDispatch ==
    \A c, d \in Chunks :
        wpc[c] = "waiting" /\ wpc[d] = "waiting" => c = d

\* C2: at most one engine thread is inside transcribe_audio at any time.
C2_OneEngineCall ==
    \A c, d \in Chunks :
        epc[c] = "transcribing" /\ epc[d] = "transcribing" => c = d

\* C2 case: an earlier call has outlived its worker's timeout and is still
\* running when a later chunk's engine thread has tried the recognizer.
C2_Witness ==
    \E c, d \in Chunks :
        /\ c < d
        /\ chunk[c].outcome = "timeout"
        /\ epc[c] = "transcribing"
        /\ epc[d] = "refused"

\* C3: every dispatch is followed by its worker's store of
\* IS_PROCESSING = false, whatever the engine thread does (returns a result
\* or an error, fails to take the recognizer, or outlives the timeout).
C3_FlagEventuallyCleared ==
    \A c \in Chunks :
        Outstanding(c) ~> (wpc[c] = "done" /\ ~IS_PROCESSING)

\* C3 case: a worker that timed out has stored the flag while its engine
\* call is still running.
C3_Witness ==
    \E c \in Chunks :
        /\ chunk[c].outcome = "timeout"
        /\ epc[c] = "transcribing"
        /\ wpc[c] = "done"
        /\ ~IS_PROCESSING


\* C4: once a chunk's worker has timed out, the chunk stays timed out, no
\* transcription-result is emitted for it and no change of the session text
\* comes from it: the text changes only by being cleared or by the result
\* of another chunk, whatever its engine thread does later.
C4_TimedOutChunkIsSilent ==
    [][\A c \in Chunks :
          chunk[c].outcome = "timeout" =>
              /\ chunk'[c].outcome = "timeout"
              /\ last_event' # last_event => last_event'.chunk # c
              /\ CURRENT_SESSION_TEXT' # CURRENT_SESSION_TEXT =>
                     \/ CURRENT_SESSION_TEXT' = <<>>
                     \/ /\ last_event' # last_event
                        /\ last_event'.chunk # c]_vars

\* C4 case: the engine call of a timed-out chunk has run to completion
\* after its worker ended.
C4_Witness ==
    \E c \in Chunks :
        /\ chunk[c].outcome = "timeout"
        /\ wpc[c] = "done"
        /\ epc[c] = "done"

\* C5: a chunk dispatched after an earlier chunk timed out reaches the
\* Recognition Engine: its engine thread is not turned away at the
\* recognizer lock.
C5_NextChunkReachesEngine ==
    \A c, d \in Chunks :
        c < d /\ chunk[c].outcome = "timeout" => epc[d] # "refused"

\* C6: no transcription-result is emitted, and nothing appended to the
\* session text, for a chunk dispatched before the latest Idle -> Recording
\* transition cleared the session text.
C6_StaleResultDiscarded == ~last_event.stale

\* C7 as stated: the session text goes from non-empty to empty only at the
\* clear of an Idle -> Recording transition.
C7_ClearedOnlyBySessionStart ==
    [][CURRENT_SESSION_TEXT # <<>> /\ CURRENT_SESSION_TEXT' = <<>> =>
          hpc = "v_text" /\ hpc' = "v_append"]_vars

\* C7 amended: every Idle -> Recording transition and every successful
\* stop_audio_capture clears the session text, and the text goes from
\* non-empty to empty only at one of the two.
C7_ClearedBySessionStartOrStop ==
    [][/\ hpc = "v_text" /\ hpc' = "v_append" => CURRENT_SESSION_TEXT' = <<>>
       /\ spc = "s_text" /\ spc' = "idle" => CURRENT_SESSION_TEXT' = <<>>
       /\ CURRENT_SESSION_TEXT # <<>> /\ CURRENT_SESSION_TEXT' = <<>> =>
              \/ hpc = "v_text" /\ hpc' = "v_append"
              \/ spc = "s_text" /\ spc' = "idle"]_vars

\* C7 case: a stop has cleared the text.  A worker has appended its result
\* and has not ended, no Idle -> Recording transition has happened since
\* its dispatch, a stop_audio_capture has returned, and the text is empty.
C7_Witness ==
    \E c \in Chunks :
        /\ wpc[c] = "clear"
        /\ chunk[c].outcome = "accepted"
        /\ ~chunk[c].stale
        /\ spc = "idle"
        /\ ~capture_system
        /\ CURRENT_SESSION_TEXT = <<>>

C9_SilenceTiming ==
    [][/\ hpc = "silence"
       /\ hpc' # "silence"
       /\ IS_RECORDING
       /\ LAST_VOICE_TIME # None
       => IF DurationSince(Now, LAST_VOICE_TIME) < SILENCE_DELAY
          THEN IS_RECORDING' /\ audio_buffer' = audio_buffer
          ELSE ~IS_RECORDING']_vars

\* C9 case: a silent frame at d = SILENCE_DELAY has ended the session.
C9_Witness ==
    /\ hpc = "wait"
    /\ ~IS_RECORDING
    /\ LAST_VOICE_TIME = SILENCE_DELAY

\* The silence branch takes the Recording -> Idle transition.
RecordingToIdle ==
    hpc = "silence" /\ hpc' # "silence" /\ IS_RECORDING /\ SilenceElapsed

\* C10: at the Recording -> Idle transition a buffer of at least
\* MIN_CHUNK_SIZE samples is kept for the Final dispatch, and when no
\* dispatch is in flight the whole of it is dispatched as one Final chunk
\* and the buffer left empty; a shorter buffer is emptied and nothing is
\* dispatched.
C10_FinalOrDiscard ==
    [][/\ RecordingToIdle /\ Len(audio_buffer) >= MIN_CHUNK_SIZE =>
              /\ hpc' = "wait"
              /\ audio_buffer' = audio_buffer
              /\ nchunks' = nchunks
       /\ /\ hpc = "final"
          /\ hpc' = "ret"
          /\ ~IS_PROCESSING \/ \A c \in Chunks : ~Outstanding(c)
          => /\ nchunks' = nchunks + 1
             /\ wpc'[nchunks'] = "waiting"
             /\ last_chunk' = [samples |-> audio_buffer, is_final |-> TRUE]
             /\ audio_buffer' = <<>>
       /\ RecordingToIdle /\ Len(audio_buffer) < MIN_CHUNK_SIZE =>
              /\ hpc' = "ret"
              /\ audio_buffer' = <<>>
              /\ nchunks' = nchunks]_vars

\* C10 case: a Final chunk holding the whole buffer has been dispatched.
C10_Witness ==
    /\ hpc = "ret"
    /\ last_chunk.is_final
    /\ Len(last_chunk.samples) >= MIN_CHUNK_SIZE
    /\ audio_buffer = <<>>
    /\ wpc[nchunks] = "waiting"

\* C11: the frame handler always returns, with no help from the workers.
\* It waits on IS_PROCESSING only at the Recording -> Idle transition with a
\* buffer of at least MIN_CHUNK_SIZE samples, at most MaxWaitCount polls,
\* and then dispatches the Final chunk or skips it; a speech frame, and a
\* silent frame that does not end the session, never enter the wait.
C11_HandlerReturns ==
    /\ [](wait_count <= MaxWaitCount)
    /\ [][/\ hpc' = "wait" /\ hpc # "wait" =>
                RecordingToIdle /\ FinalReady(audio_buffer)
          /\ wait_count' # wait_count /\ wait_count' # 0 =>
                hpc = "wait" /\ IS_PROCESSING
          /\ hpc = "wait" /\ hpc' # "wait" => hpc' = "final"
          /\ hpc = "final" /\ hpc' # "final" =>
                /\ hpc' = "ret"
                /\ nchunks' =
                       IF IS_PROCESSING THEN nchunks ELSE nchunks + 1]_vars
    /\ (hpc # "idle") ~> (hpc = "idle")

\* C11 case: the handler has polled MaxWaitCount times, the dispatch is
\* still in flight, and the handler is about to skip the Final chunk.
C11_Witness ==
    /\ hpc = "final"
    /\ wait_count = MaxWaitCount
    /\ IS_PROCESSING

\* The callback step that extracts and dispatches a Streaming chunk.
StreamingExtraction == hpc = "v_append" /\ nchunks' = nchunks + 1

\* C12 as stated: at every Streaming extraction the chunk has exactly
\* STREAMING_CHUNK_SIZE samples and exactly overlap_size samples stay in the
\* buffer.
C12_BufferLeftIsOverlap ==
    [][StreamingExtraction =>
          /\ Len(last_chunk'.samples) = STREAMING_CHUNK_SIZE
          /\ Len(audio_buffer') = overlap_size]_vars

\* C12 amended: at every Streaming extraction from a buffer of L samples
\* (L >= STREAMING_CHUNK_SIZE, the frame's samples included) the chunk is
\* the first STREAMING_CHUNK_SIZE samples and
\* L - (STREAMING_CHUNK_SIZE - overlap_size) samples stay in the buffer:
\* overlap_size exactly when L = STREAMING_CHUNK_SIZE.
C12_BufferLeftIsRest ==
    [][StreamingExtraction =>
          LET buf == audio_buffer \o FrameSamples(audio_buffer)
              L == Len(buf) IN
          /\ L >= STREAMING_CHUNK_SIZE
          /\ ~last_chunk'.is_final
          /\ last_chunk'.samples = SubSeq(buf, 1, STREAMING_CHUNK_SIZE)
          /\ Len(last_chunk'.samples) = STREAMING_CHUNK_SIZE
          /\ Len(audio_buffer') = L - (STREAMING_CHUNK_SIZE - overlap_size)
          /\ (Len(audio_buffer') = overlap_size) <=>
                 (L = STREAMING_CHUNK_SIZE)]_vars

\* C12 case: a Streaming chunk has been extracted from a buffer that had
\* grown beyond STREAMING_CHUNK_SIZE while a dispatch was in flight.
C12_Witness ==
    /\ hpc = "ret"
    /\ last_chunk # NoDispatch
    /\ ~last_chunk.is_final
    /\ Len(audio_buffer) > overlap_size

\* C13: a Streaming extraction removes exactly the first
\* STREAMING_CHUNK_SIZE - overlap_size samples and keeps the rest in order;
\* every chunk dispatched later in the session, Streaming or Final, begins
\* with the last overlap_size samples of the session's previous Streaming
\* chunk.
C13_OverlapContinuity ==
    [][/\ StreamingExtraction =>
              LET buf == audio_buffer \o FrameSamples(audio_buffer) IN
              audio_buffer' =
                  SubSeq(buf, STREAMING_CHUNK_SIZE - overlap_size + 1, Len(buf))
       /\ nchunks' = nchunks + 1 /\ prev_overlap # <<>> =>
              SubSeq(last_chunk'.samples, 1, overlap_size) = prev_overlap]_vars

\* C13 case: a Final chunk that begins with the overlap of the session's
\* Streaming chunk has been dispatched.
C13_Witness ==
    /\ hpc = "ret"
    /\ last_chunk.is_final
    /\ last_chunk.samples # <<>>
    /\ last_chunk.samples[1] > 1

\* The callback steps that change the buffer.
IdleToRecording == hpc = "v_rec" /\ hpc' = "v_text"
SpeechAppend == hpc = "v_append" /\ hpc' = "ret"
FinalExtraction == hpc = "final" /\ nchunks' = nchunks + 1
TooSmallDiscard ==
    /\ hpc = "silence"
    /\ hpc' = "ret"
    /\ IS_RECORDING
    /\ SilenceElapsed
    /\ ~FinalReady(audio_buffer)

\* C14 as stated: the buffer never gets shorter across a speech frame
\* handled while Recording, and it becomes empty exactly at the
\* Idle -> Recording transition and at every chunk drain, Streaming or
\* Final (the fresh buffer of a new capture run set aside).
C14_ResetsAtEveryDrain ==
    [][/\ SpeechAppend /\ IS_RECORDING =>
              Len(audio_buffer') >= Len(audio_buffer)
       /\ IdleToRecording => audio_buffer' = <<>>
       /\ nchunks' = nchunks + 1 => audio_buffer' = <<>>
       /\ audio_buffer # <<>> /\ audio_buffer' = <<>> =>
              \/ IdleToRecording
              \/ nchunks' = nchunks + 1
              \/ cphase = "spawned"]_vars

\* C14 amended: a speech frame lengthens the buffer by its samples; when
\* it also extracts a Streaming chunk the buffer loses
\* STREAMING_CHUNK_SIZE - overlap_size samples and keeps at least
\* overlap_size.  The buffer becomes empty exactly at the Idle -> Recording
\* transition, at a Final drain and at the discard of a too-short buffer at
\* Recording -> Idle (and a new capture run begins with an empty buffer).
C14_BufferLength ==
    [][/\ SpeechAppend /\ ~StreamingExtraction =>
              Len(audio_buffer') = Len(audio_buffer) + FrameLen
       /\ StreamingExtraction =>
              /\ Len(audio_buffer') = Len(audio_buffer) + FrameLen
                                      - (STREAMING_CHUNK_SIZE - overlap_size)
              /\ Len(audio_buffer') >= overlap_size
       /\ IdleToRecording => audio_buffer' = <<>>
       /\ FinalExtraction => audio_buffer' = <<>>
       /\ TooSmallDiscard => audio_buffer' = <<>>
       /\ audio_buffer # <<>> /\ audio_buffer' = <<>> =>
              \/ IdleToRecording
              \/ FinalExtraction
              \/ TooSmallDiscard
              \/ cphase = "spawned"]_vars

\* C14 case: a speech frame handled while Recording has left the buffer
\* shorter than it found it, and not empty.
C14_Witness ==
    /\ hpc = "ret"
    /\ IS_RECORDING
    /\ last_chunk # NoDispatch
    /\ ~last_chunk.is_final
    /\ Len(audio_buffer) = overlap_size

\* C15 as stated: the buffer gets longer only in the handler of a speech
\* frame while IS_RECORDING is set, and gets shorter only when a Streaming
\* or a Final chunk is taken for dispatch (the fresh buffer of a new capture
\* run set aside).
C15_ShorterOnlyByExtraction ==
    [][/\ Len(audio_buffer') > Len(audio_buffer) =>
              SpeechAppend /\ IS_RECORDING
       /\ Len(audio_buffer') < Len(audio_buffer) =>
              nchunks' = nchunks + 1 \/ cphase = "spawned"]_vars

\* C15 amended: the buffer gets longer only in the handler of a speech
\* frame that found the session active or made it active (IS_RECORDING is
\* set unless a stop_audio_capture has cleared it during the frame), and it
\* gets shorter only by a Streaming or Final extraction, by the clear at the
\* Idle -> Recording transition or by the discard of a too-short buffer at
\* Recording -> Idle (a new capture run begins with an empty buffer).
C15_GrowsAndShrinks ==
    [][/\ Len(audio_buffer') > Len(audio_buffer) =>
              /\ SpeechAppend
              /\ IS_RECORDING \/ ~capture_system
              /\ audio_buffer' = audio_buffer \o FrameSamples(audio_buffer)
       /\ Len(audio_buffer') < Len(audio_buffer) =>
              \/ StreamingExtraction
              \/ FinalExtraction
              \/ IdleToRecording
              \/ TooSmallDiscard
              \/ cphase = "spawned"]_vars

\* C15 case: a speech frame is at the Idle -> Recording transition with the
\* samples of a skipped Final chunk still in the buffer, which it clears.
C15_Witness ==
    /\ hpc = "v_rec"
    /\ ~IS_RECORDING
    /\ capture_system
    /\ spc = "idle"
    /\ Len(audio_buffer) >= MIN_CHUNK_SIZE

\* C16: a speech frame handled while Recording that brings the buffer to
\* STREAMING_CHUNK_SIZE samples or more while IS_PROCESSING is set extracts
\* no chunk and starts no dispatch: its samples are appended and nothing
\* else changes.  As long as the flag stays set and the session stays
\* active, every sample in the buffer stays where it is.
C16_Backpressure ==
    [][/\ ( /\ SpeechAppend
            /\ IS_RECORDING
            /\ IS_PROCESSING
            /\ Len(audio_buffer) + FrameLen >= STREAMING_CHUNK_SIZE ) =>
              /\ audio_buffer' = audio_buffer \o FrameSamples(audio_buffer)
              /\ UNCHANGED <<IS_PROCESSING, workerVars>>
       /\ IS_PROCESSING /\ IS_PROCESSING' /\ IS_RECORDING /\ IS_RECORDING' =>
              /\ Len(audio_buffer) <= Len(audio_buffer')
              /\ SubSeq(audio_buffer', 1, Len(audio_buffer)) =
                     audio_buffer]_vars

\* C16 case: the buffer has grown beyond STREAMING_CHUNK_SIZE in a session
\* whose speech frame found a dispatch in flight, and nothing was dispatched.
C16_Witness ==
    /\ hpc = "ret"
    /\ IS_RECORDING
    /\ IS_PROCESSING
    /\ last_chunk = NoDispatch
    /\ Len(audio_buffer) > STREAMING_CHUNK_SIZE

\* The worker of chunk c receives a result that passes the filter.
Accepts(c) ==
    /\ wpc[c] = "waiting"
    /\ wpc'[c] = "clear"
    /\ chan[c].tag = "Some"
    /\ ~should_skip(Trim(chan[c].text))

\* C17: a result that passes the filter makes its worker emit one
\* transcription-result: the text is the session text after the trimmed
\* text has been appended to it, after one space if it was not empty and
\* with no double space; the confidence is the result's; is_final is the
\* chunk's kind, and a Streaming chunk's text is appended like a Final
\* chunk's.  Nothing else emits a transcription-result.
C17_EventOfAcceptedResult ==
    [][/\ \A c \in Chunks :
              Accepts(c) =>
                  LET t == Trim(chan[c].text) IN
                  /\ last_event'.chunk = c
                  /\ last_event'.text =
                         IF CURRENT_SESSION_TEXT = <<>>
                         THEN t
                         ELSE CURRENT_SESSION_TEXT \o <<" ">> \o t
                  /\ CURRENT_SESSION_TEXT' = last_event'.text
                  /\ ~Contains(last_event'.text, <<" ", " ">>)
                  /\ last_event'.confidence = chan[c].confidence
                  /\ last_event'.is_final = chunk[c].is_final
       /\ last_event' # last_event /\ last_event' # NoEvent =>
              Accepts(last_event'.chunk)]_vars

\* C17 case: the accepted result of a Streaming chunk has been appended to
\* a session text that was not empty.
C17_Witness ==
    /\ last_event.chunk # 0
    /\ ~last_event.is_final
    /\ Contains(last_event.text, <<" ">>)
    /\ last_event.confidence = 90

\* new is old with something appended.
Extends(new, old) ==
    /\ Len(new) > Len(old)
    /\ SubSeq(new, 1, Len(old)) = old

\* The worker step that emits a transcription-result.
Emission == last_event' # last_event /\ last_event' # NoEvent

NeverStopped == nstarts = 1 /\ capture_system

\* C19: once a transcription-result with is_final = true has been emitted,
\* no transcription-result with is_final = false is emitted before the next
\* Idle -> Recording transition.  Stated here for the first capture run as
\* long as it has not been stopped.
C19_NoInterimAfterFinal ==
    [][NeverStopped /\ Emission /\ ~last_event'.is_final =>
          ~final_emitted]_vars

\* The handler leaves the bounded wait of the cutoff and returns.
AfterWait == hpc = "final" /\ hpc' = "ret"

CutoffAfterStreaming == AfterWait /\ prev_overlap # <<>>

C22_EmittedInDispatchOrder ==
    [][Emission => last_event.chunk < last_event'.chunk]_vars

\* The stream delivers a frame to the handler.
FrameDelivered == hpc = "idle" /\ hpc' # "idle"

\* C23: exactly one audio-level event is emitted for every frame delivered
\* to the handler, at its delivery, whatever IS_RECORDING, the voice
\* decision and IS_PROCESSING are; the handler emits no other audio-level
\* event before it returns.
C23_OneLevelPerFrame ==
    /\ [](Len(audio_level_events) = IF hpc = "idle" THEN 0 ELSE 1)
    /\ [][/\ FrameDelivered =>
                 Len(audio_level_events') = Len(audio_level_events) + 1
          /\ audio_level_events' # audio_level_events =>
                 FrameDelivered \/ (hpc = "ret" /\ hpc' = "idle")]_vars

\* C23 case: the handler of a silent frame that arrived outside a session,
\* with a dispatch in flight, has emitted its audio-level event.
C23_Witness ==
    /\ hpc = "silence"
    /\ ~IS_RECORDING
    /\ IS_PROCESSING
    /\ Len(audio_level_events) = 1


\* A frame of level 0 is delivered while IS_RECORDING is false.
ZeroLevelFrameIdle ==
    /\ ~IS_RECORDING
    /\ \E dt \in 0..MaxAge : FrameArrive(0, dt)

\* The handler's step out of the silence branch, outside a session.
SilenceStepIdle == hpc = "silence" /\ hpc' # "silence" /\ ~IS_RECORDING

\* C24 as stated: a frame of level 0 delivered while Idle emits no event
\* to the consumer.
C24_NoEventWhileIdle ==
    [][ZeroLevelFrameIdle => audio_level_events' = audio_level_events]_vars

\* C24: a frame of level 0 delivered while Idle emits its audio-level event,
\* with level 0, and nothing else: the handler takes the silence branch and
\* returns from it without a dispatch, without a transcription-result and
\* without another audio-level event.
C24_OnlyLevelEventWhileIdle ==
    [][/\ ZeroLevelFrameIdle =>
              /\ audio_level_events' = <<0>>
              /\ hpc' = "silence"
              /\ nchunks' = nchunks
              /\ last_event' = last_event
       /\ SilenceStepIdle =>
              /\ hpc' = "ret"
              /\ audio_level_events' = audio_level_events
              /\ nchunks' = nchunks
              /\ last_chunk' = last_chunk
              /\ last_event' = last_event]_vars

\* C24 case: a frame of level 0 has been handled before any voice was
\* heard; its audio-level event is the only thing it caused.
C24_Witness ==
    /\ NeverStopped
    /\ hpc = "ret"
    /\ audio_level_events = <<0>>
    /\ LAST_VOICE_TIME = None
    /\ ~IS_RECORDING
    /\ nchunks = 0
    /\ last_event = NoEvent


\* A silent frame is delivered while IS_RECORDING is false.
SilentFrameIdle == FrameDelivered /\ hpc' = "silence" /\ ~IS_RECORDING

\* C25: a silent frame handled while Idle leaves the session state as it
\* was: at its delivery and at the handler's step through the silence
\* branch IS_RECORDING, the buffer, CURRENT_SESSION_TEXT and IS_PROCESSING
\* are unchanged, LAST_VOICE_TIME stays the same instant (it is not set, and
\* only its distance from the present grows), no chunk is dispatched, and
\* the handler returns.
C25_SilentFrameIdleNoOp ==
    [][/\ SilentFrameIdle =>
              /\ UNCHANGED <<IS_RECORDING, audio_buffer,
                             CURRENT_SESSION_TEXT, IS_PROCESSING, nchunks,
                             last_chunk>>
              /\ \E dt \in 0..MaxAge :
                     LAST_VOICE_TIME' = Elapse(LAST_VOICE_TIME, dt, MaxAge)
       /\ SilenceStepIdle =>
              /\ UNCHANGED <<IS_RECORDING, audio_buffer, LAST_VOICE_TIME,
                             CURRENT_SESSION_TEXT, IS_PROCESSING, nchunks,
                             last_chunk>>
              /\ hpc' = "ret"]_vars

\* C25 case: a silent frame has been handled while Idle with samples left
\* in the buffer by a skipped Final chunk; the buffer is still there.
C25_Witness ==
    /\ NeverStopped
    /\ hpc = "ret"
    /\ ~IS_RECORDING
    /\ audio_buffer # <<>>
    /\ wait_count = 0
    /\ last_chunk = NoDispatch
    /\ ~HasVoice(audio_level_events[1])


\* ------------------------------------------------------- the text filter
\* The texts of the scenarios.
YOU_YOU_YOU == YOU \o <<" ">> \o YOU \o <<" ">> \o YOU

BRACKET_NOISE == <<"[", "n", "o", "i", "s", "e", "]">>

HELLO_TODAY ==
    <<"H", "e", "l", "l", "o", ",", " ", "h", "o", "w", " ",
      "a", "r", "e", " ", "y", "o", "u", " ", "t", "o", "d", "a", "y">>

\* The longest text made of the characters of FilterAlphabet.
MaxFilterLen == 3

FilterAlphabet == {" ", "a", "[", "."}

\* The texts of the engine's segments: every string of at most
\* MaxFilterLen characters of FilterAlphabet, and texts that meet one rule
\* of the filters each.
FilterTexts ==
    UNION {[1..n -> FilterAlphabet] : n \in 0..MaxFilterLen}
    \cup {YOU_YOU_YOU, BRACKET_NOISE, HELLO_TODAY, BLANK_AUDIO, YOU,
          <<" ", "h", "i">>, <<"m", "m", "m">>, <<"U", "m", "m">>,
          <<MusicGlyphs[1]>>, <<"a", " ", "a", " ", "a", " ", "a">>,
          <<"a", " ", "a", " ", "a", " ", "a", " ", "b">>,
          <<"o", "k", " ", "-", "-", "-">>}

\* The pipeline with chunk c in flight, the handler returned, and the
\* result that transcribe_audio makes of the engine's text sent to the
\* worker, which has not received it yet.  Chunk c is the session's Final chunk or a Streaming chunk; the
\* chunks before it are done and have left session_text.
FilterState(c, is_final, text, session_text) ==
    /\ capture_system = TRUE
    /\ recognizer_init = TRUE
    /\ is_running = TRUE
    /\ other_run = FALSE
    /\ cphase = "streaming"
    /\ nstarts = 1
    /\ start_result = "Ok"
    /\ cmd_error = "none"
    /\ spc = "idle"
    /\ IS_RECORDING = ~is_final
    /\ IS_PROCESSING = TRUE
    /\ LAST_VOICE_TIME = (IF is_final THEN MaxAge ELSE Now)
    /\ RECORDING_START_TIME = StartAgeCap
    /\ CURRENT_SESSION_TEXT = session_text
    /\ audio_buffer = (IF is_final THEN <<>> ELSE <<STREAMING_CHUNK_SIZE>>)
    /\ hpc = "idle"
    /\ hnew = FALSE
    /\ wait_count = 0
    /\ audio_level_events = <<>>
    /\ prev_overlap = (IF is_final THEN <<>> ELSE <<STREAMING_CHUNK_SIZE>>)
    /\ nchunks = c
    /\ wpc = [k \in Chunks |-> IF k < c THEN "done"
                               ELSE IF k = c THEN "waiting" ELSE "unused"]
    /\ epc = [k \in Chunks |-> IF k <= c THEN "done" ELSE "unused"]
    /\ chan = [k \in Chunks |->
                  IF k = c
                  THEN transcribe_audio([text |-> text, probs |-> <<90>>])
                  ELSE Empty]
    /\ chunk = [k \in Chunks |->
                   IF k = c THEN [is_final |-> is_final, stale |-> FALSE,
                                  outcome |-> "-"]
                   ELSE NoChunk]
    /\ last_chunk = NoDispatch
    /\ recognizer_lock = 0
    /\ last_event = NoEvent
    /\ prev_event_text = session_text
    /\ final_emitted = FALSE

FilterInit ==
    \E c \in Chunks, is_final \in BOOLEAN, text \in FilterTexts :
        FilterState(c, is_final, text,
                    IF c = 1 THEN <<>> ELSE <<"h", "i">>)

\* The worker receives the result, filters it, and ends.
FilterNext ==
    \/ \E c \in Chunks : WorkerReceive(c)
    \/ \E c \in Chunks : WorkerClear(c)

FilterSpec == FilterInit /\ [][FilterNext]_vars


\* The worker of chunk c receives Some(result) from the engine thread.
ReceivesResult(c) ==
    /\ wpc[c] = "waiting"
    /\ wpc'[c] = "clear"
    /\ chan[c].tag = "Some"

\* The worker's step leaves the session text alone and emits nothing.
SilentRejection(c) ==
    /\ CURRENT_SESSION_TEXT' = CURRENT_SESSION_TEXT
    /\ last_event' = last_event
    /\ chunk'[c].outcome = "skipped"

\* C26: a result whose trimmed text is empty, contains a pattern of the
\* denylist, is shorter than two bytes, or has more than 4/5 of its words
\* (of more than three) equal to the first is not appended to the session
\* text and produces no transcription-result.
C26_NoiseRejected ==
    [][\A c \in Chunks :
           /\ ReceivesResult(c)
           /\ \/ Trim(chan[c].text) = <<>>
              \/ is_noise_transcription(Trim(chan[c].text))
           => SilentRejection(c)]_vars

\* C27: the worker rejects "you you you" and "[noise]" and accepts
\* "Hello, how are you today", which is appended to the session text and
\* emitted.
C27_ScenarioTexts ==
    [][\A c \in Chunks :
           ReceivesResult(c) =>
               LET t == Trim(chan[c].text) IN
               /\ t = YOU_YOU_YOU => SilentRejection(c)
               /\ t = BRACKET_NOISE => SilentRejection(c)
               /\ t = HELLO_TODAY =>
                      /\ last_event'.chunk = c
                      /\ last_event'.text =
                             PushText(CURRENT_SESSION_TEXT, HELLO_TODAY)
                      /\ CURRENT_SESSION_TEXT' = last_event'.text]_vars


\* ------------------------------------------------- voice-activity decision
\* Samples are held in thousandths and taken as exact numbers; a level is
\* held in hundredths, like SILENCE_THRESHOLD.
SampleValues == {-1000, 0, 5, 1000}

\* The longest frame.
MaxFrameLen == 4

Frames == UNION {[1..n -> SampleValues] : n \in 0..MaxFrameLen}

Abs(x) == IF x < 0 THEN -x ELSE x

\* iter().sum() of a sequence of terms
RECURSIVE Sum(_)
Sum(terms) ==
    IF terms = <<>> THEN 0 ELSE Head(terms) + Sum(Tail(terms))

\* iter().enumerate().map(..): term k of the sequence belongs to the index
\* k - 1 of the slice.
SquaredSamples(audio_data) ==
    [k \in 1..Len(audio_data) |-> audio_data[k] * audio_data[k]]

\* lib.rs:393-412: 0.0 for an empty frame, else min(10 * RMS, 1.0).  With
\* samples in thousandths 10 * RMS in hundredths is sqrt(sum / len); the
\* level is rounded up to the next hundredth, which keeps every comparison
\* with a whole number of hundredths as it is.
calculate_audio_level(audio_data) ==
    IF audio_data = <<>> THEN 0
    ELSE LET sum == Sum(SquaredSamples(audio_data))
             len == Len(audio_data)
         IN  IF sum >= 100 * 100 * len THEN 100
             ELSE CHOOSE amplified \in 0..100 :
                      /\ amplified * amplified * len >= sum
                      /\ \/ amplified = 0
                         \/ (amplified - 1) * (amplified - 1) * len < sum

\* lib.rs:420-426 against the threshold (hundredths):
\* sum((sample * i / len)^2) / len > threshold
WeightedEnergyExceeds(audio_data, threshold) ==
    LET len == Len(audio_data) IN
    Sum([k \in 1..len |->
            audio_data[k] * audio_data[k] * (k - 1) * (k - 1)])
        > threshold * 10000 * len * len * len

\* lib.rs:429-435
zero_crossings(audio_data) ==
    Cardinality({k \in 1..(Len(audio_data) - 1) :
        /\ (audio_data[k] > 0) # (audio_data[k + 1] > 0)
        /\ Abs(audio_data[k] - audio_data[k + 1]) > 10})

\* lib.rs:437, 457: zcr > 0.01 && zcr < 0.35
ZcrInBand(audio_data) ==
    LET len == Len(audio_data) IN
    /\ 100 * zero_crossings(audio_data) > len
    /\ 100 * zero_crossings(audio_data) < 35 * len

\* lib.rs:440-453, 458: spectral_centroid > 0.1 && spectral_centroid < 0.3
CentroidInBand(audio_data) ==
    LET len == Len(audio_data)
        spectral_sum ==
            Sum([k \in 1..len |-> (k - 1) * Abs(audio_data[k])])
        magnitude_sum == Sum([k \in 1..len |-> Abs(audio_data[k])])
    IN  /\ magnitude_sum > 0
        /\ 10 * spectral_sum > magnitude_sum * len
        /\ 10 * spectral_sum < 3 * magnitude_sum * len

\* lib.rs:414-459: the decision that the frame handler does not call.
detect_voice_activity(audio_data, threshold) ==
    /\ audio_data # <<>>
    /\ WeightedEnergyExceeds(audio_data, threshold)
    /\ ZcrInBand(audio_data)
    /\ CentroidInBand(audio_data)

\* speech_recognition.rs:181, 185, for a threshold in thousandths that is
\* not negative: sqrt(sum(x * x) / len) > threshold
RmsExceeds(audio_data, threshold) ==
    Sum(SquaredSamples(audio_data))
        > threshold * threshold * Len(audio_data)

\* speech_recognition.rs:175-186
rms_detect_voice_activity(audio_data, threshold) ==
    /\ audio_data # <<>>
    /\ RmsExceeds(audio_data, threshold)

\* The thresholds given to rms_detect_voice_activity (thousandths).
RmsThresholds == {0, 5, 1000}

\* lib.rs:92-128: the stream delivers the frame audio_data to the handler.
FrameArriveSamples(audio_data, dt) ==
    FrameArrive(calculate_audio_level(audio_data), dt)

\* The capture run has begun and no frame has arrived yet.
VadInit ==
    /\ capture_system = TRUE
    /\ recognizer_init = TRUE
    /\ is_running = TRUE
    /\ other_run = FALSE
    /\ cphase = "streaming"
    /\ nstarts = 1
    /\ start_result = "Ok"
    /\ cmd_error = "none"
    /\ spc = "idle"
    /\ IS_RECORDING = FALSE
    /\ IS_PROCESSING = FALSE
    /\ LAST_VOICE_TIME = None
    /\ RECORDING_START_TIME = None
    /\ CURRENT_SESSION_TEXT = <<>>
    /\ audio_buffer = <<>>
    /\ hpc = "idle"
    /\ hnew = FALSE
    /\ wait_count = 0
    /\ audio_level_events = <<>>
    /\ prev_overlap = <<>>
    /\ nchunks = 0
    /\ wpc = [c \in Chunks |-> "unused"]
    /\ epc = [c \in Chunks |-> "unused"]
    /\ chan = [c \in Chunks |-> Empty]
    /\ chunk = [c \in Chunks |-> NoChunk]
    /\ last_chunk = NoDispatch
    /\ recognizer_lock = 0
    /\ last_event = NoEvent
    /\ prev_event_text = <<>>
    /\ final_emitted = FALSE

\* The frame handler fed with frames of samples.
VadNext ==
    \/ \E audio_data \in Frames, dt \in 0..MaxAge :
           FrameArriveSamples(audio_data, dt)
    \/ HandlerStep
    \/ FrameReturn

VadSpec == VadInit /\ [][VadNext]_vars

\* The level of every frame, computed once.
FrameLevels ==
    [audio_data \in Frames |-> calculate_audio_level(audio_data)]

\* The frame delivered by this step may be audio_data: the step emits its
\* level.
Delivers(audio_data) ==
    /\ FrameDelivered
    /\ audio_level_events' = <<FrameLevels[audio_data]>>

\* C28: the decision of the frame handler is speech exactly if the frame's
\* weighted energy exceeds the threshold, its zero-crossing rate is in the
\* band and its centroid is in the band.
C28_DecisionIsConjunction ==
    [][\A audio_data \in Frames :
           Delivers(audio_data) =>
               (hpc' = "voice" <=>
                    detect_voice_activity(audio_data, SILENCE_THRESHOLD))]_vars

DeviceNext == Next \/ CaptureLoopFail

DeviceSpec == Init /\ [][DeviceNext]_vars

\* C30: when the capture source of a run has failed, the
\* start_audio_capture call that started the run has returned a failure.
C30_DeviceFailureReturned ==
    cphase = "failed" => start_result = "Err"


\* ------------------------------------------------------ failing commands
\* The error strings of the commands.
ALREADY_RUNNING == "Audio capture already running"

NOT_RUNNING == "Audio capture not running"

\* One string for the errors of SpeechRecognizer::initialize
\* (speech_recognition.rs:53-65: the model is not found or does not load).
RECOGNIZER_ERROR == "Whisper model not found or not loaded"

\* The failed initialization stores the recognizer in SPEECH_RECOGNIZER all
\* the same.
StartKeepsFailedRecognizer ==
    /\ spc = "idle"
    /\ ~capture_system
    /\ ~recognizer_init
    /\ recognizer_init' = TRUE
    /\ cmd_error' = RECOGNIZER_ERROR
    /\ UNCHANGED <<capture_system, nstarts, start_result, spc, capVars,
                   sessionVars, audio_buffer, handlerVars, workerVars>>

\* lib.rs:60-71: start_audio_capture with no capture registered and no
\* recognizer stored; recognizer.initialize returns Err and the call
\* returns it.
StartRecognizerFails ==
    /\ spc = "idle"
    /\ ~capture_system
    /\ ~recognizer_init
    /\ cmd_error' = RECOGNIZER_ERROR
    /\ UNCHANGED <<capture_system, recognizer_init, nstarts, start_result,
                   spc, capVars, sessionVars, audio_buffer, handlerVars,
                   workerVars>>

\* The refused start takes the registered system out of CAPTURE_SYSTEM.
StartAlreadyRunningTakes ==
    /\ spc = "idle"
    /\ capture_system
    /\ capture_system' = FALSE
    /\ cmd_error' = ALREADY_RUNNING
    /\ UNCHANGED <<recognizer_init, nstarts, start_result, spc, capVars,
                   sessionVars, audio_buffer, handlerVars, workerVars>>

\* lib.rs:60-64: start_audio_capture while a capture system is registered.
StartAlreadyRunning ==
    /\ spc = "idle"
    /\ capture_system
    /\ cmd_error' = ALREADY_RUNNING
    /\ UNCHANGED <<capture_system, recognizer_init, nstarts, start_result,
                   spc, capVars, sessionVars, audio_buffer, handlerVars,
                   workerVars>>

\* lib.rs:244-246, 266-268: stop_audio_capture while no capture system is
\* registered.
StopNotRunning ==
    /\ spc = "idle"
    /\ ~capture_system
    /\ cmd_error' = NOT_RUNNING
    /\ UNCHANGED <<capture_system, recognizer_init, nstarts, start_result,
                   spc, capVars, sessionVars, audio_buffer, handlerVars,
                   workerVars>>

\* The program with the commands that fail.
CommandNext ==
    \/ Next
    \/ StartRecognizerFails
    \/ StartAlreadyRunning
    \/ StopNotRunning

CommandSpec == Init /\ [][CommandNext]_vars

\* Everything but the error of the latest command.
stateVars ==
    <<capture_system, recognizer_init, nstarts, start_result, spc, capVars,
      sessionVars, audio_buffer, handlerVars, workerVars>>

\* A command returns the error e.
Fails(e) == cmd_error' = e /\ cmd_error # e

\* C31: a start_audio_capture whose recognizer initialization fails returns
\* the error and changes nothing: no capture system is registered, no
\* capture thread is spawned and the recognizer slot stays empty.  Before
\* the first successful start no capture thread exists and no frame is
\* handled, and while the error is the latest result a start is possible
\* and does the initialization again.
C31_InitFailureIsSynchronous ==
    /\ [][/\ Fails(RECOGNIZER_ERROR) =>
                 /\ ~capture_system'
                 /\ ~recognizer_init'
                 /\ cphase' = "none"
                 /\ UNCHANGED stateVars
          /\ cmd_error = RECOGNIZER_ERROR /\ nstarts' = nstarts + 1 =>
                 ~recognizer_init /\ recognizer_init']_vars
    /\ [](nstarts = 0 =>
              /\ ~capture_system
              /\ ~recognizer_init
              /\ cphase = "none"
              /\ hpc = "idle"
              /\ Len(audio_level_events) = 0)
    /\ [](cmd_error = RECOGNIZER_ERROR => ENABLED StartAudioCapture)

\* C31 case: a start has failed at the recognizer's initialization.
C31_Witness ==
    /\ cmd_error = RECOGNIZER_ERROR
    /\ nstarts = 0
    /\ ~capture_system


\* A stop_audio_capture has returned Ok and no start_audio_capture has
\* succeeded since.
Stopped == nstarts > 0 /\ ~capture_system /\ spc = "idle"

\* C32: once stop_audio_capture has returned, and until the next start, the
\* session is inactive, IS_PROCESSING is clear, LAST_VOICE_TIME and
\* RECORDING_START_TIME are None and the session text is empty.
C32_ResetAfterStop ==
    Stopped =>
        /\ ~IS_RECORDING
        /\ ~IS_PROCESSING
        /\ LAST_VOICE_TIME = None
        /\ RECORDING_START_TIME = None
        /\ CURRENT_SESSION_TEXT = <<>>


\* stop_capture has returned for the latest capture run: stop_audio_capture
\* has taken the system and called it (lib.rs:246-247).
StopCaptureReturned == nstarts > 0 /\ ~capture_system

\* C33: after stop_capture has returned, no invocation of the frame handler
\* begins.
C33_NoFrameAfterStop ==
    [][StopCaptureReturned => ~FrameDelivered]_vars


\* A start_audio_capture succeeds.
StartSucceeds == nstarts' = nstarts + 1

\* A stop_audio_capture finds a capture system and takes it: the call will
\* return Ok.
StopSucceeds == spc = "idle" /\ spc' = "s_rec"

\* C34: a capture system is registered exactly from a successful start to
\* the next successful stop.  While one is registered a start fails with
\* "Audio capture already running" and a stop does not fail; while none is
\* registered a stop fails with "Audio capture not running" and a start
\* does not fail with "already running".  A failing command changes nothing.
C34_OneRegisteredRun ==
    /\ [][/\ Fails(ALREADY_RUNNING) =>
                 capture_system /\ UNCHANGED stateVars
          /\ Fails(NOT_RUNNING) =>
                 ~capture_system /\ UNCHANGED stateVars
          /\ StartSucceeds => ~capture_system /\ capture_system'
          /\ StopSucceeds => capture_system /\ ~capture_system'
          /\ capture_system' # capture_system =>
                 StartSucceeds \/ StopSucceeds]_vars
    /\ [](spc = "idle" /\ capture_system =>
              /\ ENABLED StartAlreadyRunning
              /\ ~ENABLED StartAudioCapture
              /\ ~ENABLED StartRecognizerFails
              /\ ENABLED StopTake
              /\ ~ENABLED StopNotRunning)
    /\ [](spc = "idle" /\ ~capture_system =>
              /\ ENABLED StopNotRunning
              /\ ~ENABLED StopTake
              /\ ~ENABLED StartAlreadyRunning)

\* C34 case: a start has been refused while the capture run of an earlier
\* start delivers frames.
C34_Witness ==
    /\ cmd_error = ALREADY_RUNNING
    /\ capture_system
    /\ nstarts = 1
    /\ hpc = "voice"

\* C34 case: a stop has been refused after a capture run was stopped.
C34_WitnessStop ==
    /\ cmd_error = NOT_RUNNING
    /\ ~capture_system
    /\ nstarts = 1


\* ------------------------------------------------------------------ locks
\* Held across steps: the CAPTURE_SYSTEM guard of a stop_audio_capture in
\* progress (lib.rs:244-269), the callback mutex around a running handler
\* (audio_capture.rs:127-129) and, inside the handler, the LAST_VOICE_TIME
\* guard of the silence branch.  Every other guard (SPEECH_RECOGNIZER,
\* is_running, RECORDING_START_TIME, CURRENT_SESSION_TEXT, and
\* LAST_VOICE_TIME in the speech branch) is taken and dropped inside one
\* step with no other lock requested meanwhile; the recognizer mutex is
\* only ever requested with try_lock.
CaptureSystemLockHeld == spc # "idle"

CallbackLockHeld == hpc # "idle"

\* stop_audio_capture is inside LAST_VOICE_TIME.lock() (lib.rs:252) while
\* the handler holds the guard.
StopBlocked == spc = "s_lvt" /\ LastVoiceLockHeld

\* The steps of stop_audio_capture after the system was taken.
StopStep ==
    \/ StopRecording
    \/ StopProcessing
    \/ StopTimes
    \/ StopSessionText

\* The command thread and the audio thread are scheduled, and a thread
\* parked in Mutex::lock is woken when the guard is dropped: a stop that
\* finds LAST_VOICE_TIME free again and again gets it.  Nothing is assumed
\* of the dispatch workers or of the engine.
LockFairness ==
    /\ WF_vars(HandlerStep)
    /\ WF_vars(StopRecording \/ StopProcessing \/ StopSessionText)
    /\ SF_vars(StopTimes)

LockFairSpec == Init /\ [][FairNext]_vars /\ LockFairness

\* C35: no thread is ever stuck on a lock.  The handler never has to wait
\* for a lock; a stop_audio_capture waits only for LAST_VOICE_TIME, and only
\* while the handler is in its silence branch; the handler leaves that
\* branch, so the stop goes through all its locks and returns, releasing
\* CAPTURE_SYSTEM for the next command; an engine thread that finds the
\* recognizer locked gives up instead of waiting.
C35_NoDeadlock ==
    /\ [](CallbackLockHeld => ENABLED HandlerStep)
    /\ [](CaptureSystemLockHeld /\ ~StopBlocked => ENABLED StopStep)
    /\ [](\A c \in Chunks : epc[c] = "trylock" => ENABLED EngineTryLock(c))
    /\ CaptureSystemLockHeld ~> ~CaptureSystemLockHeld
    /\ CallbackLockHeld ~> ~CallbackLockHeld

\* C35 case: the stop is parked on LAST_VOICE_TIME while the handler, which
\* holds it, polls IS_PROCESSING.
C35_Witness ==
    /\ StopBlocked
    /\ hpc = "wait"
    /\ wait_count > 0



\* ---------------------------------------------------- two capture runs
\* start_audio_capture (lib.rs:57-238) while a capture run that was stopped
\* before its thread marked it running still streams: CAPTURE_SYSTEM is
\* None, a second system is created and registered, and its thread starts
\* a stream and a handler with an audio_buffer of their own (lib.rs:83-92).
\* The two handlers share IS_RECORDING, IS_PROCESSING, the times and the
\* session text.
StartBesideRunning ==
    /\ spc = "idle"
    /\ ~capture_system
    /\ cphase = "streaming"
    /\ is_running
    /\ hpc = "idle"
    /\ nstarts < MaxStarts
    /\ capture_system' = TRUE
    /\ other_run' = TRUE
    /\ nstarts' = nstarts + 1
    /\ start_result' = "Ok"
    /\ cmd_error' = "none"
    /\ UNCHANGED <<recognizer_init, is_running, cphase, spc, sessionVars,
                   audio_buffer, handlerVars, workerVars>>

\* The handler of the later run on a frame with voice (lib.rs:130-156),
\* run between two frames of the earlier run; its own buffer stays below
\* STREAMING_CHUNK_SIZE.
OtherRunVoiceFrame ==
    /\ other_run
    /\ hpc = "idle"
    /\ LAST_VOICE_TIME' = Now
    /\ IF ~IS_RECORDING
       THEN /\ IS_RECORDING' = TRUE
            /\ CURRENT_SESSION_TEXT' = <<>>
            /\ RECORDING_START_TIME' = Now
            /\ chunk' = [c \in Chunks |->
                            IF wpc[c] \in {"waiting", "clear"}
                            THEN [chunk[c] EXCEPT !.stale = TRUE]
                            ELSE chunk[c]]
            /\ prev_event_text' = <<>>
            /\ final_emitted' = FALSE
       ELSE UNCHANGED <<IS_RECORDING, CURRENT_SESSION_TEXT,
                        RECORDING_START_TIME, chunk, prev_event_text,
                        final_emitted>>
    /\ UNCHANGED <<cmdVars, capVars, IS_PROCESSING, audio_buffer,
                   handlerVars, nchunks, wpc, epc, chan, last_chunk,
                   recognizer_lock, last_event>>

\* The handler of the later run on a silent frame that cuts the session
\* off (lib.rs:180-189, 219-221), run between two frames of the earlier
\* run; its own buffer is below MIN_CHUNK_SIZE and is discarded.
OtherRunCutoff(dt) ==
    /\ other_run
    /\ hpc = "idle"
    /\ IS_RECORDING
    /\ LAST_VOICE_TIME' = Elapse(LAST_VOICE_TIME, dt, MaxAge)
    /\ RECORDING_START_TIME' = Elapse(RECORDING_START_TIME, dt, StartAgeCap)
    /\ LAST_VOICE_TIME' # None
    /\ DurationSince(Now, LAST_VOICE_TIME') >= SILENCE_DELAY
    /\ IS_RECORDING' = FALSE
    /\ UNCHANGED <<cmdVars, capVars, IS_PROCESSING, CURRENT_SESSION_TEXT,
                   audio_buffer, handlerVars, workerVars>>

TwoRunNext ==
    \/ Next
    \/ StartBesideRunning
    \/ OtherRunVoiceFrame
    \/ \E dt \in 0..MaxAge : OtherRunCutoff(dt)

TwoRunSpec == Init /\ [][TwoRunNext]_vars

\* C36: whenever IS_RECORDING goes from false to true, the audio_buffer of
\* the capture run is empty afterwards: samples left over from an earlier
\* session are gone before a sample of the new session is appended, so no
\* chunk holds samples of two sessions.
C36_BufferClearedAtSessionStart ==
    [][~IS_RECORDING /\ IS_RECORDING' => audio_buffer' = <<>>]_vars

=============================================================================
